---- MODULE Spec2Model ----
(***************************************************************************)
(* A model of the raw-pipelines crate: the length-prefixed record parser   *)
(* (RecordParserStage), the record transform (BusinessLogicStage), the     *)
(* file reader (FileReaderStage) and the Pipeline composer.                *)
(*                                                                         *)
(* Numbers wider than TLC's integers are kept exactly as two 16-bit limbs  *)
(* [hi, lo] (value = hi * 65536 + lo): the u32 frame length, and the usize *)
(* sums computed from it.  The width of usize is a property of the build   *)
(* target (32 or 64 bits), and whether an overflowing `+` panics or wraps  *)
(* is a property of the build profile; both are part of the state.         *)
(***************************************************************************)
EXTENDS Integers, Sequences, FiniteSets, TLC

VARIABLES
    build,      \* the build the program was compiled as (target width, profile)
    input,      \* RecordParserStage::run: its input buffer
    pst,        \* RecordParserStage::run: cursor i, records res, outcome
    source,     \* the records whose encoding is parsed (round trip)
    linput,     \* BusinessLogicStage::run: its input records
    lst,        \* BusinessLogicStage::run: records consumed k, out, outcome
    file,       \* the file FileReaderStage reads
    pipeline,   \* the Pipeline value being built
    attached,   \* the stages in the order they were given to new/then
    pinput,     \* the input Pipeline::run was called with
    calls,      \* every Stage::run invocation made so far: stage, input, output
    presult     \* what Pipeline::run returned

vars == <<build, input, pst, source, linput, lst, file, pipeline, attached,
          pinput, calls, presult>>

\* ------------------------------------------------------------------ bounds

\* longest raw buffer handed to the parser in SpecParser
MaxInputLen == 10
\* round trip: longest payload and largest number of records encoded
MaxPayloadLen == 2
MaxRecords == 3
\* transform: largest number of records in one input
MaxLogicRecs == 3
\* pipeline: largest number of stages attached to one pipeline
MaxStages == 4

\* ------------------------------------------------------------------ helpers

SeqsUpTo(S, n) == UNION {[1..k -> S] : k \in 0..n}

Limb == 65536

\* the build: pointer width of the target, and the overflow-checks profile flag
Builds == [bits : {32, 64}, overflowChecks : BOOLEAN]

\* ------------------------------------------------------------------ results

Running == [kind |-> "running"]
Ok(v) == [kind |-> "ok", val |-> v]
Err(e) == [kind |-> "err", err |-> e]
Panic(why) == [kind |-> "panic", why |-> why]

TruncatedRecord(len, remaining) ==
    [type |-> "truncated", expected |-> len, remaining |-> remaining]
TrailingBytes(n) == [type |-> "trailing", extra |-> n]

\* ------------------------------------------------------------------ u32 / usize

\* the header read least significant byte first
FromBeBytes_LittleEndian(b) == [hi |-> b[4] * 256 + b[3], lo |-> b[2] * 256 + b[1]]

\* u32::from_be_bytes on a 4-byte slice, as limbs
FromBeBytes(b) == [hi |-> b[1] * 256 + b[2], lo |-> b[3] * 256 + b[4]]

\* (small usize) + (u32 as usize), exact: hi may reach Limb, i.e. bit 32 set
UsizeAdd(a, len) ==
    LET lo == a + len.lo
    IN  [hi |-> len.hi + (lo \div Limb), lo |-> lo % Limb]

\* the exact sum does not fit the target's usize
Overflows(sum, b) == b.bits = 32 /\ sum.hi >= Limb

\* the sum as the machine holds it (wrapping on a 32-bit target)
Wrapped(sum, b) ==
    IF b.bits = 32 THEN [hi |-> sum.hi % Limb, lo |-> sum.lo] ELSE sum

\* limbs > n, for a small n
UGt(u, n) == u.hi > 0 \/ u.lo > n

\* ------------------------------------------------------------------ RecordParserStage

ParserStart == [i |-> 0, res |-> <<>>, outcome |-> Running]

\* loop while any byte is left
LoopCond_AnyBytesLeft(in, st) == st.i < Len(in)

\* the loop condition, line 26
LoopCond(in, st) == st.i + 4 <= Len(in)

\* &input[lo..hi] : a slice must satisfy lo <= hi <= len
SliceOk(in, lo, hi) == lo <= hi /\ hi <= Len(in)

\* `i += 4` left out: the payload is taken from the header's offset
ParseFrame_NoHeaderAdvance(in, st, b) ==
    IF ~SliceOk(in, st.i, st.i + 4)
    THEN [st EXCEPT !.outcome = Panic("slice")]
    ELSE
    LET len == FromBeBytes(SubSeq(in, st.i + 1, st.i + 4))
        i1  == st.i
        sum == UsizeAdd(i1, len)
        end == Wrapped(sum, b)
    IN  IF Overflows(sum, b) /\ b.overflowChecks
        THEN [st EXCEPT !.i = i1, !.outcome = Panic("add overflow")]
        ELSE IF UGt(end, Len(in))
        THEN [st EXCEPT !.i = i1,
                        !.outcome = Err(TruncatedRecord(len, Len(in) - i1))]
        ELSE IF ~SliceOk(in, i1, end.lo)
        THEN [st EXCEPT !.i = i1, !.outcome = Panic("slice")]
        ELSE [st EXCEPT !.i = end.lo,
                        !.res = Append(st.res, SubSeq(in, i1 + 1, end.lo))]

\* one iteration of the while loop, lines 27-41
ParseFrame(in, st, b) ==
    IF ~SliceOk(in, st.i, st.i + 4)
    THEN [st EXCEPT !.outcome = Panic("slice")]
    ELSE
    LET len == FromBeBytes(SubSeq(in, st.i + 1, st.i + 4))
        i1  == st.i + 4
        sum == UsizeAdd(i1, len)
        end == Wrapped(sum, b)
    IN  IF Overflows(sum, b) /\ b.overflowChecks
        THEN [st EXCEPT !.i = i1, !.outcome = Panic("add overflow")]
        ELSE IF UGt(end, Len(in))
        THEN [st EXCEPT !.i = i1,
                        !.outcome = Err(TruncatedRecord(len, Len(in) - i1))]
        ELSE IF ~SliceOk(in, i1, end.lo)
        THEN [st EXCEPT !.i = i1, !.outcome = Panic("slice")]
        ELSE [st EXCEPT !.i = end.lo,
                        !.res = Append(st.res, SubSeq(in, i1 + 1, end.lo))]

\* the check for unparsed bytes left out
ParseTail_NoTrailingCheck(in, st) == [st EXCEPT !.outcome = Ok(st.res)]

\* after the loop, lines 44-48
ParseTail(in, st) ==
    IF st.i # Len(in)
    THEN [st EXCEPT !.outcome = Err(TrailingBytes(Len(in) - st.i))]
    ELSE [st EXCEPT !.outcome = Ok(st.res)]

ParserStep(in, st, b) ==
    IF LoopCond(in, st) THEN ParseFrame(in, st, b) ELSE ParseTail(in, st)

RECURSIVE ParserLoop(_, _, _)
ParserLoop(in, st, b) ==
    IF st.outcome.kind # "running" THEN st
    ELSE ParserLoop(in, ParserStep(in, st, b), b)

\* RecordParserStage::run as one call
RecordParserStage_run(in, b) == ParserLoop(in, ParserStart, b).outcome

\* ------------------------------------------------------------------ SpecParser

WireBytes == {0, 1, 255}

NotStarted == [kind |-> "idle"]
ParserIdle == [i |-> 0, res |-> <<>>, outcome |-> NotStarted]
LogicIdle == [k |-> 0, out |-> <<>>, outcome |-> NotStarted]
NoFile == [status |-> "missing", bytes |-> <<>>]
NoPipeline == [kind |-> "none"]
NoInput == [type |-> "none"]

PipelineIdle ==
    /\ file = NoFile
    /\ pipeline = NoPipeline
    /\ attached = <<>>
    /\ pinput = NoInput
    /\ calls = <<>>
    /\ presult = NotStarted

OthersIdle ==
    /\ source = <<>>
    /\ linput = <<>>
    /\ lst = LogicIdle
    /\ PipelineIdle

InitParser ==
    /\ build \in Builds
    /\ input \in SeqsUpTo(WireBytes, MaxInputLen)
    /\ pst = ParserStart
    /\ OthersIdle

ParserIter ==
    /\ pst.outcome.kind = "running"
    /\ LoopCond(input, pst)
    /\ pst' = ParseFrame(input, pst, build)
    /\ UNCHANGED <<build, input, source, linput, lst, file, pipeline, attached,
                   pinput, calls, presult>>

ParserFinish ==
    /\ pst.outcome.kind = "running"
    /\ ~LoopCond(input, pst)
    /\ pst' = ParseTail(input, pst)
    /\ UNCHANGED <<build, input, source, linput, lst, file, pipeline, attached,
                   pinput, calls, presult>>

NextParser == ParserIter \/ ParserFinish

SpecParser == InitParser /\ [][NextParser]_vars

SpecParserFair == SpecParser /\ WF_vars(NextParser)

\* ------------------------------------------------------------------ wire format

\* the 4-byte big-endian header of a payload of n bytes
ToBeBytes(n) ==
    <<(n \div 16777216) % 256, (n \div 65536) % 256, (n \div 256) % 256, n % 256>>

\* the wire encoding of a sequence of records: header, payload, repeated
RECURSIVE Encode(_)
Encode(recs) ==
    IF recs = <<>> THEN <<>>
    ELSE ToBeBytes(Len(Head(recs))) \o Head(recs) \o Encode(Tail(recs))

\* buf is an exact concatenation of complete frames
RECURSIVE WellFormed(_)
WellFormed(buf) ==
    \/ buf = <<>>
    \/ /\ Len(buf) >= 4
       /\ LET h == FromBeBytes(SubSeq(buf, 1, 4))
          IN  /\ h.hi = 0
              /\ 4 + h.lo <= Len(buf)
              /\ WellFormed(SubSeq(buf, 5 + h.lo, Len(buf)))

\* the offsets at which a run of complete frames starting at 0 ends
FrameEnds(buf) == {p \in 0..Len(buf) : WellFormed(SubSeq(buf, 1, p))}

\* the header found at offset p
HeaderAt(buf, p) == FromBeBytes(SubSeq(buf, p + 1, p + 4))

ParserDone == pst.outcome.kind \notin {"running", "idle"}

RECURSIVE SumFrameSizes(_)
SumFrameSizes(recs) ==
    IF recs = <<>> THEN 0 ELSE 4 + Len(Head(recs)) + SumFrameSizes(Tail(recs))

\* offset of the k-th frame of recs (1-based) in its encoding
FrameOffset(recs, k) == SumFrameSizes(SubSeq(recs, 1, k - 1))

\* ------------------------------------------------------------------ SpecRoundTrip

PayloadBytes == {0, 255}

InitRoundTrip ==
    /\ build \in Builds
    /\ source \in SeqsUpTo(SeqsUpTo(PayloadBytes, MaxPayloadLen), MaxRecords)
    /\ input = Encode(source)
    /\ pst = ParserStart
    /\ linput = <<>>
    /\ lst = LogicIdle
    /\ PipelineIdle

SpecRoundTrip == InitRoundTrip /\ [][NextParser]_vars

\* ------------------------------------------------------------------ claims: parser

\* C1: encoding any sequence of byte-sequences as frames and running the
\* parser on the result returns Ok with exactly the original sequence.
C1_RoundTrip == ParserDone => pst.outcome = Ok(source)

C1_Witness ==
    /\ ParserDone
    /\ Len(source) >= 3
    /\ \E k \in 1..Len(source) : source[k] = <<>>
    /\ \E k \in 1..Len(source) : Len(source[k]) >= 2

C1_WitnessEmpty == ParserDone /\ source = <<>> /\ pst.outcome = Ok(<<>>)

\* C3: a buffer in which a frame's header declares more bytes than remain
\* after it fails with TruncatedRecord(declared, remaining).
C3_TruncatedReported ==
    ParserDone =>
      \A p \in FrameEnds(input) :
        (Len(input) - p >= 4 /\ UGt(HeaderAt(input, p), Len(input) - p - 4))
          => pst.outcome =
               Err(TruncatedRecord(HeaderAt(input, p), Len(input) - p - 4))

\* C4: n >= 0 complete frames followed by k extra bytes, 1 <= k <= 3, fail
\* with TrailingBytes(k); the empty buffer decodes to the empty sequence.
C4_TrailingReported ==
    ParserDone =>
      /\ \A p \in FrameEnds(input) :
           (Len(input) - p \in 1..3)
             => pst.outcome = Err(TrailingBytes(Len(input) - p))
      /\ (input = <<>> => pst.outcome = Ok(<<>>))

C4_Witness ==
    /\ ParserDone
    /\ Len(pst.res) >= 1
    /\ pst.outcome = Err(TrailingBytes(3))

C4_WitnessShort == ParserDone /\ Len(input) = 2 /\ pst.outcome = Err(TrailingBytes(2))

\* C6: the parser never panics: no sum overflows the machine word and every
\* slice lies inside the buffer.
C6_NeverPanics == pst.outcome.kind # "panic"

\* C8: Ok(records) means the frames of the records tile the buffer exactly and
\* each record is the payload at its frame's position.
C8_FramesTile ==
    (ParserDone /\ pst.outcome.kind = "ok") =>
      LET recs == pst.outcome.val
      IN  /\ SumFrameSizes(recs) = Len(input)
          /\ WellFormed(input)
          /\ \A k \in 1..Len(recs) :
               LET off == FrameOffset(recs, k)
               IN  /\ HeaderAt(input, off) = [hi |-> 0, lo |-> Len(recs[k])]
                   /\ recs[k] = SubSeq(input, off + 5, off + 4 + Len(recs[k]))

C8_Witness ==
    /\ ParserDone
    /\ pst.outcome.kind = "ok"
    /\ Len(pst.outcome.val) >= 2
    /\ \E k \in 1..Len(pst.outcome.val) : Len(pst.outcome.val[k]) >= 1

\* C9: TrailingBytes carries 1..3; TruncatedRecord carries declared >
\* remaining; a loop head with 4 or more bytes left yields a further record
\* or a TruncatedRecord error.
C9_ErrorShapes ==
    /\ (pst.outcome.kind = "err" /\ pst.outcome.err.type = "trailing")
         => pst.outcome.err.extra \in 1..3
    /\ (pst.outcome.kind = "err" /\ pst.outcome.err.type = "truncated")
         => UGt(pst.outcome.err.expected, pst.outcome.err.remaining)

C9_HeaderStep ==
    (pst.outcome.kind = "running" /\ Len(input) - pst.i >= 4) =>
      \/ pst'.outcome.kind = "running" /\ Len(pst'.res) = Len(pst.res) + 1
      \/ pst'.outcome.kind = "err" /\ pst'.outcome.err.type = "truncated"

C9_TrailingAndTruncated == []C9_ErrorShapes /\ [][C9_HeaderStep]_vars

\* C10: at every loop head 0 <= cursor <= length, an iteration that reaches
\* the next loop head advances the cursor by at least 4, at most length / 4
\* records are produced, and the loop terminates.
C10_LoopHead ==
    /\ pst.outcome.kind = "running" => (0 <= pst.i /\ pst.i <= Len(input))
    /\ 4 * Len(pst.res) <= Len(input)

C10_Progress ==
    (pst.outcome.kind = "running" /\ pst'.outcome.kind = "running")
      => pst'.i >= pst.i + 4

C10_Terminates ==
    /\ []C10_LoopHead
    /\ [][C10_Progress]_vars
    /\ <>(pst.outcome.kind # "running")

C10_Witness ==
    /\ pst.outcome.kind = "running"
    /\ Len(pst.res) >= 2
    /\ pst.res[1] = <<>>
    /\ pst.i < Len(input)

\* ------------------------------------------------------------------ UTF-8

IsCont(b) == 128 <= b /\ b <= 191

\* the length of the well-formed UTF-8 sequence that starts b, 0 if none does
\* (String::from_utf8 accepts exactly the well-formed sequences)
Utf8SeqLen(b) ==
    IF b = <<>> THEN 0
    ELSE LET b1 == b[1]
             n  == Len(b)
         IN  IF b1 < 128 THEN 1
             ELSE IF 194 <= b1 /\ b1 <= 223
             THEN IF n >= 2 /\ IsCont(b[2]) THEN 2 ELSE 0
             ELSE IF 224 <= b1 /\ b1 <= 239
             THEN IF /\ n >= 3
                     /\ IsCont(b[2])
                     /\ IsCont(b[3])
                     /\ (b1 = 224 => b[2] >= 160)
                     /\ (b1 = 237 => b[2] <= 159)
                  THEN 3 ELSE 0
             ELSE IF 240 <= b1 /\ b1 <= 244
             THEN IF /\ n >= 4
                     /\ IsCont(b[2])
                     /\ IsCont(b[3])
                     /\ IsCont(b[4])
                     /\ (b1 = 240 => b[2] >= 144)
                     /\ (b1 = 244 => b[2] <= 143)
                  THEN 4 ELSE 0
             ELSE 0

\* the code point of a well-formed sequence of n bytes
Utf8CodePoint(b, n) ==
    IF n = 1 THEN b[1]
    ELSE IF n = 2 THEN (b[1] - 192) * 64 + (b[2] - 128)
    ELSE IF n = 3 THEN (b[1] - 224) * 4096 + (b[2] - 128) * 64 + (b[3] - 128)
    ELSE (b[1] - 240) * 262144 + (b[2] - 128) * 4096 + (b[3] - 128) * 64
         + (b[4] - 128)

\* String::from_utf8: the chars of the bytes, or an error
RECURSIVE FromUtf8(_)
FromUtf8(b) ==
    IF b = <<>> THEN Ok(<<>>)
    ELSE LET n == Utf8SeqLen(b)
         IN  IF n = 0 THEN Err("FromUtf8Error")
             ELSE LET rest == FromUtf8(SubSeq(b, n + 1, Len(b)))
                  IN  IF rest.kind = "err" THEN rest
                      ELSE Ok(<<Utf8CodePoint(b, n)>> \o rest.val)

\* the UTF-8 encoding of one char
EncodeChar(c) ==
    IF c < 128 THEN <<c>>
    ELSE IF c < 2048 THEN <<192 + (c \div 64), 128 + (c % 64)>>
    ELSE IF c < 65536
    THEN <<224 + (c \div 4096), 128 + ((c \div 64) % 64), 128 + (c % 64)>>
    ELSE <<240 + (c \div 262144), 128 + ((c \div 4096) % 64),
           128 + ((c \div 64) % 64), 128 + (c % 64)>>

\* String::into_bytes
RECURSIVE IntoBytes(_)
IntoBytes(cs) ==
    IF cs = <<>> THEN <<>> ELSE EncodeChar(Head(cs)) \o IntoBytes(Tail(cs))

\* char::to_uppercase: the Unicode uppercase mapping, which may yield several
\* chars.  Complete for U+0000..U+00FF; the chars above U+00FF that the inputs
\* below contain (U+20AC, U+1F600) have no uppercase mapping.
CharToUppercase(c) ==
    IF 97 <= c /\ c <= 122 THEN <<c - 32>>
    ELSE IF c = 181 THEN <<924>>
    ELSE IF c = 223 THEN <<83, 83>>
    ELSE IF 224 <= c /\ c <= 254 /\ c # 247 THEN <<c - 32>>
    ELSE IF c = 255 THEN <<376>>
    ELSE <<c>>

\* str::to_uppercase
RECURSIVE ToUppercase(_)
ToUppercase(cs) ==
    IF cs = <<>> THEN <<>> ELSE CharToUppercase(Head(cs)) \o ToUppercase(Tail(cs))

\* ------------------------------------------------------------------ BusinessLogicStage

LogicStart == [k |-> 0, out |-> <<>>, outcome |-> Running]

\* records of 3 bytes kept
LogicRecord_KeepsThree(out, rec) ==
    IF Len(rec) < 3 THEN out
    ELSE LET s == FromUtf8(rec)
         IN  IF s.kind = "ok" THEN Append(out, IntoBytes(ToUppercase(s.val)))
             ELSE out

\* the body of the for loop for one record, lines 64-70
LogicRecord(out, rec) ==
    IF Len(rec) <= 3 THEN out
    ELSE LET s == FromUtf8(rec)
         IN  IF s.kind = "ok" THEN Append(out, IntoBytes(ToUppercase(s.val)))
             ELSE out

\* one step of `for rec in input`: the next record, or the return at line 73
LogicStep(in, st) ==
    IF st.k < Len(in)
    THEN [st EXCEPT !.k = st.k + 1, !.out = LogicRecord(st.out, in[st.k + 1])]
    ELSE [st EXCEPT !.outcome = Ok(st.out)]

RECURSIVE LogicLoop(_, _)
LogicLoop(in, st) ==
    IF st.outcome.kind # "running" THEN st ELSE LogicLoop(in, LogicStep(in, st))

\* BusinessLogicStage::run as one call
BusinessLogicStage_run(in) == LogicLoop(in, LogicStart).outcome

\* ------------------------------------------------------------------ SpecLogic

\* "", "ab", "abc", "abcd", "Te5t", "hello" with e-acute, two e-acute,
\* "ma" + sharp s, y-diaeresis + "es", euro sign + "ab", U+1F600;
\* then bytes that are not UTF-8: 0xFF first, a cut two-byte char, an
\* overlong NUL, a surrogate, a stray continuation byte, a short 0xFF
LogicRecords ==
    { <<>>, <<97, 98>>, <<97, 98, 99>>, <<97, 98, 99, 100>>, <<84, 101, 53, 116>>,
      <<104, 195, 169, 108, 108, 111>>, <<195, 169, 195, 169>>,
      <<109, 97, 195, 159>>, <<195, 191, 101, 115>>, <<226, 130, 172, 97, 98>>,
      <<240, 159, 152, 128>>,
      <<255, 97, 98, 99>>, <<97, 98, 99, 195>>, <<192, 128, 97, 97>>,
      <<237, 160, 128, 97>>, <<97, 169, 98, 99>>, <<255>> }

InitLogic ==
    /\ build \in Builds
    /\ linput \in SeqsUpTo(LogicRecords, MaxLogicRecs)
    /\ lst = LogicStart
    /\ input = <<>>
    /\ pst = ParserIdle
    /\ source = <<>>
    /\ PipelineIdle

LogicIter ==
    /\ lst.outcome.kind = "running"
    /\ lst.k < Len(linput)
    /\ lst' = LogicStep(linput, lst)
    /\ UNCHANGED <<build, input, pst, source, linput, file, pipeline, attached,
                   pinput, calls, presult>>

LogicReturn ==
    /\ lst.outcome.kind = "running"
    /\ lst.k = Len(linput)
    /\ lst' = LogicStep(linput, lst)
    /\ UNCHANGED <<build, input, pst, source, linput, file, pipeline, attached,
                   pinput, calls, presult>>

NextLogic == LogicIter \/ LogicReturn

SpecLogic == InitLogic /\ [][NextLogic]_vars

\* ------------------------------------------------------------------ claims: transform

LogicDone == lst.outcome.kind \notin {"running", "idle"}

IsText(rec) == FromUtf8(rec).kind = "ok"

Kept(recs) == SelectSeq(recs, LAMBDA r : Len(r) >= 4 /\ IsText(r))

Uppercased(rec) == IntoBytes(ToUppercase(FromUtf8(rec).val))

\* C5: the transform never fails and returns exactly the uppercased encodings
\* of the input records of length >= 4 that are valid UTF-8, in input order.
C5_StableFilterMap ==
    LogicDone =>
      /\ lst.outcome.kind = "ok"
      /\ Len(lst.outcome.val) = Len(Kept(linput))
      /\ \A k \in 1..Len(lst.outcome.val) :
           lst.outcome.val[k] = Uppercased(Kept(linput)[k])

\* "hello" with e-acute, bytes that are not UTF-8 and "abcd" give the
\* uppercase of the first and the third
C5_Witness ==
    /\ LogicDone
    /\ linput = << <<104, 195, 169, 108, 108, 111>>, <<255, 97, 98, 99>>,
                   <<97, 98, 99, 100>> >>
    /\ lst.outcome = Ok(<< <<72, 195, 137, 76, 76, 79>>, <<65, 66, 67, 68>> >>)

\* "abc" is dropped for its length, "ma" + sharp s becomes "MASS"
C5_WitnessShort ==
    /\ LogicDone
    /\ linput = << <<97, 98, 99>>, <<109, 97, 195, 159>> >>
    /\ lst.outcome = Ok(<< <<77, 65, 83, 83>> >>)

\* ------------------------------------------------------------------ FileReaderStage

\* File::open, then read_to_end, lines 47-53 of main.rs
FileReaderStage_run(f) ==
    IF f.status = "missing" THEN Err([type |-> "io", op |-> "open"])
    ELSE IF f.status = "unreadable" THEN Err([type |-> "io", op |-> "read"])
    ELSE Ok(f.bytes)

\* ------------------------------------------------------------------ Pipeline

FileReaderStage == [kind |-> "FileReaderStage"]
RecordParserStage == [kind |-> "RecordParserStage"]
BusinessLogicStage == [kind |-> "BusinessLogicStage"]
LeafStages == {FileReaderStage, RecordParserStage, BusinessLogicStage}

\* the struct Combined that `then` builds
Combined(a, b) == [kind |-> "Combined", a |-> a, b |-> b]

\* the I and O of each impl Stage<I, O>
RECURSIVE InType(_)
InType(s) ==
    IF s.kind = "Combined" THEN InType(s.a)
    ELSE IF s.kind = "FileReaderStage" THEN "unit"
    ELSE IF s.kind = "RecordParserStage" THEN "bytes"
    ELSE "records"

RECURSIVE OutType(_)
OutType(s) ==
    IF s.kind = "Combined" THEN OutType(s.b)
    ELSE IF s.kind = "FileReaderStage" THEN "bytes"
    ELSE "records"

\* the run of a stage that is not a Combined, with the record of the call
LeafRun(s, x, env) ==
    LET r == IF s.kind = "FileReaderStage" THEN FileReaderStage_run(env.file)
             ELSE IF s.kind = "RecordParserStage"
             THEN RecordParserStage_run(x, env.build)
             ELSE BusinessLogicStage_run(x)
    IN  [out |-> r, calls |-> <<[stage |-> s.kind, in |-> x, out |-> r]>>]

RECURSIVE StageRun(_, _, _)
RECURSIVE CombinedRun(_, _, _)

\* b runs whatever a returned
CombinedRun_NoShortCircuit(s, x, env) ==
    LET ra == StageRun(s.a, x, env)
        rb == StageRun(s.b, IF ra.out.kind = "ok" THEN ra.out.val ELSE <<>>, env)
    IN  [out |-> rb.out, calls |-> ra.calls \o rb.calls]

\* a runs once for the check and once more for its value
CombinedRun_RunsATwice(s, x, env) ==
    LET ra == StageRun(s.a, x, env)
    IN  IF ra.out.kind # "ok" THEN ra
        ELSE LET mid == StageRun(s.a, x, env)
                 rb  == StageRun(s.b, mid.out.val, env)
             IN  [out |-> rb.out, calls |-> ra.calls \o mid.calls \o rb.calls]

\* Combined::run, lines 102-105: `?` returns a's error; a panic unwinds
CombinedRun(s, x, env) ==
    LET ra == StageRun(s.a, x, env)
    IN  IF ra.out.kind # "ok" THEN ra
        ELSE LET rb == StageRun(s.b, ra.out.val, env)
             IN  [out |-> rb.out, calls |-> ra.calls \o rb.calls]

StageRun(s, x, env) ==
    IF s.kind = "Combined" THEN CombinedRun(s, x, env) ELSE LeafRun(s, x, env)

\* the leaf stages of a stage, in the order Combined nests them
RECURSIVE Leaves(_)
Leaves(s) ==
    IF s.kind = "Combined" THEN Leaves(s.a) \o Leaves(s.b) ELSE <<s.kind>>

\* ------------------------------------------------------------------ SpecPipeline

\* empty; "abc","xy"; "test"; "abcd" and "hello" with e-acute; a frame cut
\* short; a frame and one stray byte; a header of 2^32 - 1
PipeBuffers ==
    { <<>>,
      <<0, 0, 0, 3, 97, 98, 99, 0, 0, 0, 2, 120, 121>>,
      <<0, 0, 0, 4, 116, 101, 115, 116>>,
      <<0, 0, 0, 4, 97, 98, 99, 100, 0, 0, 0, 6, 104, 195, 169, 108, 108, 111>>,
      <<0, 0, 0, 5, 97, 98>>,
      <<0, 0, 0, 4, 116, 101, 115, 116, 0>>,
      <<255, 255, 255, 255>> }

PipeRecords ==
    { <<>>, << <<97, 98>>, <<116, 101, 115, 116>> >>, << <<255, 97, 98, 99>> >> }

Files ==
    {NoFile, [status |-> "unreadable", bytes |-> <<>>]}
      \cup {[status |-> "ok", bytes |-> b] : b \in PipeBuffers}

\* the values of a type that Pipeline::run is called with; () is the empty tuple
InputsOf(t) ==
    IF t = "unit" THEN {<<>>} ELSE IF t = "bytes" THEN PipeBuffers ELSE PipeRecords

InitPipeline ==
    /\ build \in Builds
    /\ file \in Files
    /\ pipeline = NoPipeline
    /\ attached = <<>>
    /\ pinput = NoInput
    /\ calls = <<>>
    /\ presult = NotStarted
    /\ input = <<>>
    /\ pst = ParserIdle
    /\ source = <<>>
    /\ linput = <<>>
    /\ lst = LogicIdle

\* Pipeline::new, lines 82-84
New(stage) ==
    /\ pipeline = NoPipeline
    /\ pipeline' = [kind |-> "Pipeline", stage |-> stage]
    /\ attached' = <<stage.kind>>
    /\ UNCHANGED <<build, input, pst, source, linput, lst, file, pinput, calls,
                   presult>>

\* Pipeline::then, lines 86-115; the where clause is the type check
Then(next) ==
    /\ pipeline.kind = "Pipeline"
    /\ Len(attached) < MaxStages
    /\ OutType(pipeline.stage) = InType(next)
    /\ pipeline' = [kind |-> "Pipeline", stage |-> Combined(pipeline.stage, next)]
    /\ attached' = Append(attached, next.kind)
    /\ UNCHANGED <<build, input, pst, source, linput, lst, file, pinput, calls,
                   presult>>

\* Pipeline::run, lines 118-123; it takes self by value
PipelineRun(x) ==
    /\ LET r == StageRun(pipeline.stage, x, [file |-> file, build |-> build])
       IN  /\ presult' = r.out
           /\ calls' = r.calls
    /\ pinput' = [type |-> InType(pipeline.stage), val |-> x]
    /\ pipeline' = [kind |-> "moved"]
    /\ UNCHANGED <<build, input, pst, source, linput, lst, file, attached>>

NextPipeline ==
    \/ \E s \in LeafStages : New(s)
    \/ \E s \in LeafStages : Then(s)
    \/ /\ pipeline.kind = "Pipeline"
       /\ \E x \in InputsOf(InType(pipeline.stage)) : PipelineRun(x)

SpecPipeline == InitPipeline /\ [][NextPipeline]_vars

\* ------------------------------------------------------------------ claims: pipeline

PipelineRan == presult.kind # "idle"

\* the calls made are the first stages attached, each once, in order
CallsArePrefix ==
    /\ Len(calls) <= Len(attached)
    /\ \A k \in 1..Len(calls) : calls[k].stage = attached[k]

\* C2: the first stage whose run returns an error ends the run: it is the last
\* stage invoked, no stage attached after it is invoked, and Pipeline::run
\* returns exactly its error.
C2_ShortCircuit ==
    PipelineRan =>
      /\ CallsArePrefix
      /\ \A k \in 1..Len(calls) :
           calls[k].out.kind = "err" => (k = Len(calls) /\ presult = calls[k].out)

\* the parser fails with two transform stages attached after it
C2_Witness ==
    /\ PipelineRan
    /\ attached = <<"FileReaderStage", "RecordParserStage", "BusinessLogicStage",
                    "BusinessLogicStage">>
    /\ Len(calls) = 2
    /\ presult = Err(TruncatedRecord([hi |-> 0, lo |-> 5], 2))

C2_WitnessReader ==
    /\ PipelineRan
    /\ Len(attached) >= 3
    /\ Len(calls) = 1
    /\ presult = Err([type |-> "io", op |-> "open"])

\* C7: building invokes no stage; a run in which no stage fails invokes every
\* stage once, in attachment order, each on the output of the one before,
\* and returns the last stage's output.
C7_RunsChainOnce ==
    /\ ~PipelineRan => calls = <<>>
    /\ pipeline.kind = "Pipeline" => Leaves(pipeline.stage) = attached
    /\ (PipelineRan /\ presult.kind = "ok") =>
         /\ Len(calls) = Len(attached)
         /\ \A k \in 1..Len(calls) :
              /\ calls[k].stage = attached[k]
              /\ calls[k].out.kind = "ok"
              /\ calls[k].in = IF k = 1 THEN pinput.val ELSE calls[k - 1].out.val
         /\ presult = calls[Len(calls)].out

\* main's pipeline on the file holding "abcd" and "hello" with e-acute
C7_Witness ==
    /\ PipelineRan
    /\ attached = <<"FileReaderStage", "RecordParserStage", "BusinessLogicStage">>
    /\ Len(calls) = 3
    /\ presult = Ok(<< <<65, 66, 67, 68>>, <<72, 195, 137, 76, 76, 79>> >>)

C7_WitnessBuilt ==
    /\ ~PipelineRan
    /\ Len(attached) >= 3
    /\ calls = <<>>

====
